---- MODULE Spec2Model ----
(***************************************************************************)
(* EpicSum media service (media_service.py) together with the two scripts  *)
(* that produce the artifacts it loads (create_unified_database.py,        *)
(* generate_embeddings.py).                                                *)
(*                                                                         *)
(* Catalog positions are 0-based as in the Python code; the TLA+ sequence  *)
(* holding the catalog is 1-based, so position p is element p + 1.         *)
(* Text values (titles, descriptions, links) are strings; Chars gives the  *)
(* character sequence of a link where the code works on its characters.    *)
(* Embedding vectors are unit vectors with integer coordinates, so that    *)
(* the inner product is exact.                                             *)
(***************************************************************************)
EXTENDS Integers, Sequences, FiniteSets, TLC

VARIABLES
    db_file,          \* unified_media_database.json on disk
    emb_file,         \* embeddings.npy on disk
    idx_file,         \* embeddings_index.json on disk
    MEDIA_DATABASE,   \* global of media_service.py
    EMBEDDINGS,       \* global of media_service.py
    FAISS_INDEX,      \* global of media_service.py
    SENTENCE_MODEL,   \* global of media_service.py
    INDEX_DATA,       \* global of media_service.py
    pc,               \* position of the service process in startup_event
    failed,           \* load steps whose except-branch ran
    resp,             \* the last lookup request with its response
    arg,              \* input of the link-size functions (SpecLink)
    ret,              \* their result (SpecLink)
    tasks             \* the requests on the server's event loop (SpecLoop)

vars == <<db_file, emb_file, idx_file, MEDIA_DATABASE, EMBEDDINGS, FAISS_INDEX,
          SENTENCE_MODEL, INDEX_DATA, pc, failed, resp, arg, ret, tasks>>

service_vars == <<db_file, emb_file, idx_file, MEDIA_DATABASE, EMBEDDINGS,
                  FAISS_INDEX, SENTENCE_MODEL, INDEX_DATA, pc, failed, resp,
                  tasks>>

link_vars == <<arg, ret>>

(***************************************************************************)
(* Bounds of the model.                                                    *)
(***************************************************************************)
MaxImages == 2
MaxVideos == 2
MaxShift == 1
MinSize == 100
MaxSize == 1600
MaxRequests == 2

\* limit=100 of search_media_fast, as passed by both handlers.
Limit == 100

\* Item counts the catalog builder is run with: small catalogs, and one with
\* more items of a type than the result limit.
ImageCounts == (0 .. MaxImages) \cup {Limit + 1}
VideoCounts == 0 .. MaxVideos

Min(a, b) == IF a < b THEN a ELSE b
Abs(x) == IF x < 0 THEN -x ELSE x
Range(s) == {s[i] : i \in DOMAIN s}
Take(s, n) == SubSeq(s, 1, Min(n, Len(s)))

(***************************************************************************)
(* Texts and their embeddings.  encode(normalize_embeddings=True) of the   *)
(* sentence model is a fixed function from text to unit vector; the same   *)
(* function embeds catalog items (generate_embeddings) and queries         *)
(* (search_media_fast).                                                    *)
(***************************************************************************)
ImageTitles == <<"shoe", "hat", "ocean">>
VideoTitles == <<"sunset", "ocean", "shoe">>
ImageLinks == <<"a_AC_UL320_j", "bj", "c_AC_SL1500_j">>
VideoLinks == <<"v1", "v2", "v3">>

Descriptions == {"shoe", "sunset", "shoe___1", "hat___x"}

encode(text) ==
    CASE text = "shoe"     -> <<1, 0>>
      [] text = "hat"      -> <<0, 1>>
      [] text = "sunset"   -> <<-1, 0>>
      [] text = "ocean"    -> <<0, -1>>
      [] text = "shoe___1" -> <<0, 1>>
      [] text = "hat___x"  -> <<0, -1>>

InnerProduct(u, v) == u[1] * v[1] + u[2] * v[2]

\* Inner products of unit vectors, best first.
Similarities == <<1, 0, -1>>

(***************************************************************************)
(* create_unified_database.py                                              *)
(***************************************************************************)
RotateIndex(i, shift, n) == ((i - 1 + shift) % n) + 1

process_product_images(nI, shift) ==
    [i \in 1 .. nI |->
        [content_type |-> "image",
         title |-> ImageTitles[RotateIndex(i, shift, Len(ImageTitles))],
         link |-> ImageLinks[RotateIndex(i, shift, Len(ImageLinks))]]]

process_videos(nV, shift) ==
    [i \in 1 .. nV |->
        [content_type |-> "video",
         title |-> VideoTitles[RotateIndex(i, shift, Len(VideoTitles))],
         link |-> VideoLinks[RotateIndex(i, shift, Len(VideoLinks))]]]

NoFile == [present |-> FALSE, data |-> <<>>]
File(d) == [present |-> TRUE, data |-> d]

create_unified_database(nI, nV, shift) ==
    /\ pc = "stopped"
    /\ db_file' = File(process_product_images(nI, shift) \o process_videos(nV, shift))
    /\ UNCHANGED <<emb_file, idx_file, MEDIA_DATABASE, EMBEDDINGS, FAISS_INDEX,
                   SENTENCE_MODEL, INDEX_DATA, pc, failed, resp, arg, ret, tasks>>

\* The catalog file is removed (or left unreadable) between runs.
remove_database_file ==
    /\ pc = "stopped"
    /\ db_file.present
    /\ emb_file.present
    /\ db_file' = NoFile
    /\ UNCHANGED <<emb_file, idx_file, MEDIA_DATABASE, EMBEDDINGS, FAISS_INDEX,
                   SENTENCE_MODEL, INDEX_DATA, pc, failed, resp, arg, ret, tasks>>

(***************************************************************************)
(* generate_embeddings.py                                                  *)
(***************************************************************************)
create_searchable_text(item) == item.title

\* Positions (0-based) of the items of one content type, in catalog order.
PositionsOf(database, content_type) ==
    LET pos == [i \in 1 .. Len(database) |-> i - 1]
        OfType(p) == database[p + 1].content_type = content_type
    IN  SelectSeq(pos, OfType)

content_type_index(database) ==
    [image |-> PositionsOf(database, "image"),
     video |-> PositionsOf(database, "video")]

generate_embeddings ==
    /\ pc = "stopped"
    /\ db_file.present
    /\ Len(db_file.data) > 0
    /\ emb_file' = File([i \in 1 .. Len(db_file.data) |->
                            encode(create_searchable_text(db_file.data[i]))])
    /\ idx_file' = File([total_items |-> Len(db_file.data),
                         content_type_index |-> content_type_index(db_file.data)])
    /\ UNCHANGED <<db_file, MEDIA_DATABASE, EMBEDDINGS, FAISS_INDEX,
                   SENTENCE_MODEL, INDEX_DATA, pc, failed, resp, arg, ret, tasks>>

(***************************************************************************)
(* media_service.py: link-size functions                                   *)
(***************************************************************************)
\* The characters of a link.
Chars(link) ==
    CASE link = "a_AC_UL320_j" -> <<"a", "_", "A", "C", "_", "U", "L", "3", "2", "0", "_", "j">>
      [] link = "bj" -> <<"b", "j">>
      [] link = "c_AC_SL1500_j" -> <<"c", "_", "A", "C", "_", "S", "L", "1", "5", "0", "0", "_", "j">>
      [] link = "x_AC_UL_y" -> <<"x", "_", "A", "C", "_", "U", "L", "_", "y">>
      [] link = "x_AC_UL320.j" -> <<"x", "_", "A", "C", "_", "U", "L", "3", "2", "0", ".", "j">>
      [] link = "9_AC_XL320_7" -> <<"9", "_", "A", "C", "_", "X", "L", "3", "2", "0", "_", "7">>
      [] link = "7_AC_SL75_9" -> <<"7", "_", "A", "C", "_", "S", "L", "7", "5", "_", "9">>
      [] link = "_AC_UL1__AC_SL2_" -> <<"_", "A", "C", "_", "U", "L", "1", "_", "_", "A", "C", "_", "S", "L", "2", "_">>
      [] link = "_AC_UL1_AC_SL2_" -> <<"_", "A", "C", "_", "U", "L", "1", "_", "A", "C", "_", "S", "L", "2", "_">>
      [] link = "v1" -> <<"v", "1">>
      [] link = "v2" -> <<"v", "2">>
      [] link = "v3" -> <<"v", "3">>
      [] link = "a_AC_UL160_j" -> <<"a", "_", "A", "C", "_", "U", "L", "1", "6", "0", "_", "j">>
      [] link = "a_AC_UL480_j" -> <<"a", "_", "A", "C", "_", "U", "L", "4", "8", "0", "_", "j">>
      [] link = "a_AC_UL720_j" -> <<"a", "_", "A", "C", "_", "U", "L", "7", "2", "0", "_", "j">>
      [] link = "a_AC_UL1000_j" -> <<"a", "_", "A", "C", "_", "U", "L", "1", "0", "0", "0", "_", "j">>
      [] link = "a_AC_UL1500_j" -> <<"a", "_", "A", "C", "_", "U", "L", "1", "5", "0", "0", "_", "j">>
      [] link = "c_AC_SL160_j" -> <<"c", "_", "A", "C", "_", "S", "L", "1", "6", "0", "_", "j">>
      [] link = "c_AC_SL320_j" -> <<"c", "_", "A", "C", "_", "S", "L", "3", "2", "0", "_", "j">>
      [] link = "c_AC_SL480_j" -> <<"c", "_", "A", "C", "_", "S", "L", "4", "8", "0", "_", "j">>
      [] link = "c_AC_SL720_j" -> <<"c", "_", "A", "C", "_", "S", "L", "7", "2", "0", "_", "j">>
      [] link = "c_AC_SL1000_j" -> <<"c", "_", "A", "C", "_", "S", "L", "1", "0", "0", "0", "_", "j">>
      [] link = "" -> <<>>

\* The links the table above knows, and the link a character sequence spells.
KnownLinks ==
    {"a_AC_UL320_j", "bj", "c_AC_SL1500_j", "x_AC_UL_y", "x_AC_UL320.j",
     "9_AC_XL320_7", "7_AC_SL75_9", "_AC_UL1__AC_SL2_", "_AC_UL1_AC_SL2_",
     "v1", "v2", "v3", "",
     "a_AC_UL160_j", "a_AC_UL480_j", "a_AC_UL720_j", "a_AC_UL1000_j",
     "a_AC_UL1500_j", "c_AC_SL160_j", "c_AC_SL320_j", "c_AC_SL480_j",
     "c_AC_SL720_j", "c_AC_SL1000_j"}

LinkText(chars) == CHOOSE link \in KnownLinks : Chars(link) = chars

DigitChars == <<"0", "1", "2", "3", "4", "5", "6", "7", "8", "9">>
IsDigit(c) == c \in Range(DigitChars)

\* str(n) for an integer n, as the f-string of the replacement formats it.
RECURSIVE NatDigits(_)
NatDigits(n) ==
    IF n < 10 THEN <<DigitChars[n + 1]>>
    ELSE NatDigits(n \div 10) \o <<DigitChars[(n % 10) + 1]>>

IntDigits(n) == IF n < 0 THEN <<"-">> \o NatDigits(-n) ELSE NatDigits(n)

\* (_AC_[US]L) at position i of url.
MarkerAt(url, i) ==
    /\ i + 5 <= Len(url)
    /\ url[i] = "_" /\ url[i + 1] = "A" /\ url[i + 2] = "C" /\ url[i + 3] = "_"
    /\ url[i + 4] \in {"U", "S"}
    /\ url[i + 5] = "L"

\* Length of the run of digits of url that starts at position j (\d+ is greedy).
RECURSIVE DigitRun(_, _)
DigitRun(url, j) ==
    IF j <= Len(url) /\ IsDigit(url[j]) THEN 1 + DigitRun(url, j + 1) ELSE 0

\* Number of digits of the match of (_AC_[US]L)\d+(_) at position i, 0 if none.
MatchAt(url, i) ==
    IF MarkerAt(url, i)
    THEN LET n == DigitRun(url, i + 6)
         IN  IF n >= 1 /\ i + 6 + n <= Len(url) /\ url[i + 6 + n] = "_"
             THEN n ELSE 0
    ELSE 0

\* re.sub from position i on: every non-overlapping match, leftmost first.
RECURSIVE SubFrom(_, _, _)
SubFrom(url, size, i) ==
    IF i > Len(url) THEN <<>>
    ELSE LET n == MatchAt(url, i)
         IN  IF n > 0
             THEN SubSeq(url, i, i + 5) \o IntDigits(size) \o <<"_">>
                      \o SubFrom(url, size, i + 6 + n + 1)
             ELSE <<url[i]>> \o SubFrom(url, size, i + 1)

\* The replacement without its second group: the terminator is lost.
RECURSIVE SubFromNoTerminator(_, _, _)
SubFromNoTerminator(url, size, i) ==
    IF i > Len(url) THEN <<>>
    ELSE LET n == MatchAt(url, i)
         IN  IF n > 0
             THEN SubSeq(url, i, i + 5) \o IntDigits(size)
                      \o SubFromNoTerminator(url, size, i + 6 + n + 1)
             ELSE <<url[i]>> \o SubFromNoTerminator(url, size, i + 1)

transform_image_size_no_terminator(url, size) == SubFromNoTerminator(url, size, 1)

transform_image_size(url, size) == SubFrom(url, size, 1)

supported_sizes == <<160, 320, 480, 720, 1000, 1500>>

\* A scan that keeps the last element with the least key.
RECURSIVE ClosestFromLast(_, _, _)
ClosestFromLast(size, i, best) ==
    IF i > Len(supported_sizes) THEN best
    ELSE IF Abs(supported_sizes[i] - size) <= Abs(best - size)
         THEN ClosestFromLast(size, i + 1, supported_sizes[i])
         ELSE ClosestFromLast(size, i + 1, best)

\* min(supported_sizes, key=...): the first element with the least key.
RECURSIVE ClosestFrom(_, _, _)
ClosestFrom(size, i, best) ==
    IF i > Len(supported_sizes) THEN best
    ELSE IF Abs(supported_sizes[i] - size) < Abs(best - size)
         THEN ClosestFrom(size, i + 1, supported_sizes[i])
         ELSE ClosestFrom(size, i + 1, best)

validate_image_size(size) ==
    IF size \in Range(supported_sizes) THEN size
    ELSE ClosestFrom(size, 2, supported_sizes[1])

\* get_image, lines 297-299: the link of the selected copy after the rewrite.
resized_link(link, final_size) ==
    IF Chars(link) # <<>> THEN transform_image_size(Chars(link), final_size)
    ELSE Chars(link)

(***************************************************************************)
(* media_service.py: startup                                               *)
(***************************************************************************)
NoIndexData == [total_items |-> 0,
                content_type_index |-> [image |-> <<>>, video |-> <<>>]]

\* load_database: a failed read is caught; the catalog is left empty and
\* startup goes on.
load_database ==
    /\ pc = "stopped"
    /\ IF db_file.present
       THEN /\ MEDIA_DATABASE' = db_file.data
            /\ failed' = failed
       ELSE /\ MEDIA_DATABASE' = <<>>
            /\ failed' = failed \cup {"load_database"}
    /\ pc' = "load_embeddings"
    /\ UNCHANGED <<db_file, emb_file, idx_file, EMBEDDINGS, FAISS_INDEX,
                   SENTENCE_MODEL, INDEX_DATA, resp, arg, ret, tasks>>

\* load_embeddings_and_index, lines 72-79: np.load; a failure is re-raised.
load_embeddings ==
    /\ pc = "load_embeddings"
    /\ IF emb_file.present
       THEN /\ EMBEDDINGS' = [loaded |-> TRUE, rows |-> emb_file.data]
            /\ failed' = failed
            /\ pc' = "load_index_data"
       ELSE /\ EMBEDDINGS' = EMBEDDINGS
            /\ failed' = failed \cup {"load_embeddings"}
            /\ pc' = "failed"
    /\ UNCHANGED <<db_file, emb_file, idx_file, MEDIA_DATABASE, FAISS_INDEX,
                   SENTENCE_MODEL, INDEX_DATA, resp, arg, ret, tasks>>

\* load_embeddings_and_index, lines 81-85: the partition metadata.
load_index_data ==
    /\ pc = "load_index_data"
    /\ IF idx_file.present
       THEN /\ INDEX_DATA' = idx_file.data
            /\ failed' = failed
            /\ pc' = "create_faiss_index"
       ELSE /\ INDEX_DATA' = INDEX_DATA
            /\ failed' = failed \cup {"load_index_data"}
            /\ pc' = "failed"
    /\ UNCHANGED <<db_file, emb_file, idx_file, MEDIA_DATABASE, EMBEDDINGS,
                   FAISS_INDEX, SENTENCE_MODEL, resp, arg, ret, tasks>>

\* load_embeddings_and_index, lines 87-99: IndexFlatIP over the loaded rows.
create_faiss_index ==
    /\ pc = "create_faiss_index"
    /\ FAISS_INDEX' = [built |-> TRUE, vectors |-> EMBEDDINGS.rows]
    /\ pc' = "load_sentence_model"
    /\ UNCHANGED <<db_file, emb_file, idx_file, MEDIA_DATABASE, EMBEDDINGS,
                   SENTENCE_MODEL, INDEX_DATA, failed, resp, arg, ret, tasks>>

\* load_sentence_model: a failure is re-raised.
load_sentence_model(available) ==
    /\ pc = "load_sentence_model"
    /\ IF available
       THEN /\ SENTENCE_MODEL' = TRUE
            /\ failed' = failed
            /\ pc' = "ready"
       ELSE /\ SENTENCE_MODEL' = SENTENCE_MODEL
            /\ failed' = failed \cup {"load_sentence_model"}
            /\ pc' = "failed"
    /\ UNCHANGED <<db_file, emb_file, idx_file, MEDIA_DATABASE, EMBEDDINGS,
                   FAISS_INDEX, INDEX_DATA, resp, arg, ret, tasks>>

(***************************************************************************)
(* media_service.py: search_media_fast                                     *)
(***************************************************************************)
\* FAISS_INDEX.search(query_embedding, k): the k labels of greatest inner
\* product, best first, equal products by ascending label; -1 fills the
\* places past the number of indexed vectors.
search(vectors, query_embedding, k) ==
    LET n == Len(vectors)
        labels == [i \in 1 .. n |-> i - 1]
        Best(p) == InnerProduct(vectors[p + 1], query_embedding) = Similarities[1]
        Mid(p) == InnerProduct(vectors[p + 1], query_embedding) = Similarities[2]
        Worst(p) == InnerProduct(vectors[p + 1], query_embedding) = Similarities[3]
        ranked == SelectSeq(labels, Best) \o SelectSeq(labels, Mid)
                      \o SelectSeq(labels, Worst)
    IN  IF k <= n THEN SubSeq(ranked, 1, k)
        ELSE ranked \o [i \in 1 .. (k - n) |-> -1]

\* The outcome of one call: the stage that produced the list, the list as
\* catalog positions (references to the records of MEDIA_DATABASE), the text
\* given to the sentence model, and whether MEDIA_DATABASE[...] raised
\* IndexError.
Outcome(stage, results, encoded, raised) ==
    [stage |-> stage, results |-> results, encoded |-> encoded, raised |-> raised]

OutOfRange(positions) == \E i \in DOMAIN positions : positions[i] >= Len(MEDIA_DATABASE)

search_media_fast(query, content_type, limit) ==
    IF Len(MEDIA_DATABASE) = 0 \/ ~FAISS_INDEX.built \/ ~SENTENCE_MODEL
    THEN Outcome("skipped", <<>>, "", FALSE)
    ELSE
    LET content_indices == INDEX_DATA.content_type_index[content_type]
    IN  IF Len(content_indices) = 0
        THEN Outcome("skipped", <<>>, "", FALSE)
        ELSE
        LET query_embedding == encode(query)
            k == Min(Len(content_indices) * 2, Len(MEDIA_DATABASE))
            indices == search(FAISS_INDEX.vectors, query_embedding, k)
            members == Range(content_indices)
            InType(idx) == idx \in members
            kept == Take(SelectSeq(indices, InType), limit)
        IN  IF OutOfRange(kept)
            THEN Outcome("scored", <<>>, query, TRUE)
            ELSE IF Len(kept) > 0
            THEN Outcome("scored", kept, query, FALSE)
            ELSE IF OutOfRange(Take(content_indices, limit))
            THEN Outcome("unranked", <<>>, query, TRUE)
            ELSE Outcome("unranked", Take(content_indices, limit), query, FALSE)

(***************************************************************************)
(* media_service.py: the lookup handlers                                   *)
(***************************************************************************)
NoResponse ==
    [handler |-> "none", description |-> "", index |-> 0, size |-> 0,
     redirect |-> FALSE, status |-> 0, stage |-> "none", encoded |-> "",
     results |-> <<>>, final_index |-> 0, final_size |-> 0, position |-> -1,
     link |-> <<>>]

\* An index past the end taken as the last place instead of wrapping.
FinalIndexClamped(index, length) == IF index < length THEN index ELSE length - 1

\* index % len(results): Python's modulus takes the sign of the divisor.
FinalIndex(index, length) == index % length

\* Query(ge=0) on index; Query(ge=160, le=1500) on size.
ValidIndex(index) == index >= 0
ValidSize(size) == size >= 160 /\ size <= 1500

Request(handler, description, index, size, redirect) ==
    [NoResponse EXCEPT !.handler = handler, !.description = description,
                       !.index = index, !.size = size, !.redirect = redirect]

\* The handler's own fallback (lines 284-291, 340-347): all catalog records
\* of the type, with no limit.
HandlerFallback(content_type) == PositionsOf(MEDIA_DATABASE, content_type)

\* Lines 281-312 and 337-363 after parameter validation.  rewrite tells
\* whether the selected record's link is resized (images only).
Lookup(req, content_type, rewrite) ==
    LET final_size == IF rewrite THEN validate_image_size(req.size) ELSE 0
        found == search_media_fast(req.description, content_type, Limit)
        results == IF Len(found.results) > 0 THEN found.results
                   ELSE HandlerFallback(content_type)
        stage == IF Len(found.results) > 0 THEN found.stage
                 ELSE IF Len(results) > 0 THEN "handler_fallback"
                 ELSE "exhausted"
        seen == [req EXCEPT !.encoded = found.encoded, !.final_size = final_size]
    IN  IF found.raised
        THEN [seen EXCEPT !.status = 500, !.stage = found.stage]
        ELSE IF Len(results) = 0
        THEN [seen EXCEPT !.status = 404, !.stage = stage]
        ELSE
        LET final_index == FinalIndex(req.index, Len(results))
            position == results[final_index + 1]
            selected == MEDIA_DATABASE[position + 1]
        IN  [seen EXCEPT !.status = IF req.redirect THEN 302 ELSE 200,
                         !.stage = stage,
                         !.results = results,
                         !.final_index = final_index,
                         !.position = position,
                         !.link = IF rewrite
                                  THEN resized_link(selected.link, final_size)
                                  ELSE Chars(selected.link)]

\* The response of get_image / get_video to a request, parameter validation
\* included.
image_response(req) ==
    IF ValidIndex(req.index) /\ ValidSize(req.size)
    THEN Lookup(req, "image", TRUE)
    ELSE [req EXCEPT !.status = 422]

video_response(req) ==
    IF ValidIndex(req.index)
    THEN Lookup(req, "video", FALSE)
    ELSE [req EXCEPT !.status = 422]

\* The rewrite without the copy: the link is assigned to the catalog's own
\* record.
catalog_rewritten_in_place(response) ==
    IF response.status \in {200, 302}
    THEN [MEDIA_DATABASE EXCEPT
             ![response.position + 1].link = LinkText(response.link)]
    ELSE MEDIA_DATABASE

\* get_image, lines 295-299: selected_image is results[final_index].copy(),
\* a dict of its own; assigning its link leaves the catalog's record as it
\* was.
catalog_after_rewrite(response) == MEDIA_DATABASE

get_image(description, index, size, redirect) ==
    /\ pc = "ready"
    /\ resp.handler = "none"
    /\ resp' = image_response(Request("image", description, index, size, redirect))
    /\ MEDIA_DATABASE' = catalog_after_rewrite(resp')
    /\ UNCHANGED <<db_file, emb_file, idx_file, EMBEDDINGS,
                   FAISS_INDEX, SENTENCE_MODEL, INDEX_DATA, pc, failed, arg, ret, tasks>>

get_video(description, index, redirect) ==
    /\ pc = "ready"
    /\ resp.handler = "none"
    /\ resp' = video_response(Request("video", description, index, 0, redirect))
    /\ UNCHANGED <<db_file, emb_file, idx_file, MEDIA_DATABASE, EMBEDDINGS,
                   FAISS_INDEX, SENTENCE_MODEL, INDEX_DATA, pc, failed, arg, ret, tasks>>

\* The response leaves the handler (RedirectResponse, the JSON body or the
\* HTTPException); the service is free for the next request.
send_response ==
    /\ pc = "ready"
    /\ resp.handler # "none"
    /\ resp' = NoResponse
    /\ UNCHANGED <<db_file, emb_file, idx_file, MEDIA_DATABASE, EMBEDDINGS,
                   FAISS_INDEX, SENTENCE_MODEL, INDEX_DATA, pc, failed, arg, ret, tasks>>

(***************************************************************************)
(* The service with the scripts that feed it.                              *)
(***************************************************************************)
IndexInputs == {-1, 0, 1, 2, Limit + 2}
SizeInputs == {MinSize, 400, 720, 1500}

NoCall == [fn |-> "none", link |-> "", size |-> 0]
NoResult == [size |-> 0, again |-> 0, link |-> <<>>]

\* The requests the server holds at one time, each a task of the event
\* loop: idle (no request), pending (arrived, handler not yet started),
\* encode (inside SENTENCE_MODEL.encode), done (handler returned).
Requests == 1 .. MaxRequests
NoTask == [pos |-> "idle", response |-> NoResponse]
NoTasks == [r \in Requests |-> NoTask]

Init ==
    /\ db_file = NoFile
    /\ emb_file = NoFile
    /\ idx_file = NoFile
    /\ MEDIA_DATABASE = <<>>
    /\ EMBEDDINGS = [loaded |-> FALSE, rows |-> <<>>]
    /\ FAISS_INDEX = [built |-> FALSE, vectors |-> <<>>]
    /\ SENTENCE_MODEL = FALSE
    /\ INDEX_DATA = NoIndexData
    /\ pc = "stopped"
    /\ failed = {}
    /\ resp = NoResponse
    /\ arg = NoCall
    /\ ret = NoResult
    /\ tasks = NoTasks

Next ==
    \/ \E nI \in ImageCounts, nV \in VideoCounts, shift \in 0 .. MaxShift :
           create_unified_database(nI, nV, shift)
    \/ remove_database_file
    \/ generate_embeddings
    \/ load_database
    \/ load_embeddings
    \/ load_index_data
    \/ create_faiss_index
    \/ \E available \in BOOLEAN : load_sentence_model(available)
    \/ \E description \in Descriptions, index \in IndexInputs,
          size \in SizeInputs, redirect \in BOOLEAN :
           get_image(description, index, size, redirect)
    \/ \E description \in Descriptions, index \in IndexInputs, redirect \in BOOLEAN :
           get_video(description, index, redirect)
    \/ send_response

Spec == Init /\ [][Next]_vars

(***************************************************************************)
(* The link-size functions on their own: validate_image_size on every      *)
(* size of a range, and the rewrite of get_image (lines 279, 297-299) on   *)
(* links with and without a size token.                                    *)
(***************************************************************************)
LinkInputs == {"a_AC_UL320_j", "bj", "c_AC_SL1500_j", "x_AC_UL_y", "x_AC_UL320.j",
               "9_AC_XL320_7", "7_AC_SL75_9", "_AC_UL1__AC_SL2_",
               "_AC_UL1_AC_SL2_", ""}

call_validate_image_size(size) ==
    /\ arg.fn = "none"
    /\ arg' = [fn |-> "validate", link |-> "", size |-> size]
    /\ ret' = [size |-> validate_image_size(size),
               again |-> validate_image_size(validate_image_size(size)),
               link |-> <<>>]
    /\ UNCHANGED service_vars

call_resize(link, size) ==
    /\ arg.fn = "none"
    /\ arg' = [fn |-> "resize", link |-> link, size |-> size]
    /\ ret' = [size |-> validate_image_size(size),
               again |-> validate_image_size(size),
               link |-> resized_link(link, validate_image_size(size))]
    /\ UNCHANGED service_vars

NextLink ==
    \/ \E size \in MinSize .. MaxSize : call_validate_image_size(size)
    \/ \E link \in LinkInputs, size \in MinSize .. MaxSize : call_resize(link, size)

SpecLink == Init /\ [][NextLink]_vars

(***************************************************************************)
(* The handlers as tasks of the server's event loop.  get_image and        *)
(* get_video are `async def` path functions, so the server runs them on    *)
(* its one event-loop thread (uvicorn.run, one process); neither holds an  *)
(* await, and search_media_fast and SENTENCE_MODEL.encode are plain        *)
(* synchronous calls: a handler that has started holds the thread until    *)
(* it returns.                                                             *)
(***************************************************************************)
\* Some handler is inside SENTENCE_MODEL.encode: the event-loop thread is
\* executing that call.
LoopBusy == \E r \in Requests : tasks[r].pos = "encode"

\* The response of the handler the request is routed to.
handler_response(req) ==
    IF req.handler = "image" THEN image_response(req) ELSE video_response(req)

\* The request gets as far as line 185: its parameters are valid and
\* search_media_fast does not return at line 177 or 182.
Encodes(req) ==
    /\ handler_response(req).status # 422
    /\ search_media_fast(req.description, req.handler, Limit).stage # "skipped"

\* A request arrives at the server.
accept(r, handler, description, index) ==
    /\ pc = "ready"
    /\ tasks[r].pos = "idle"
    /\ tasks' = [tasks EXCEPT ![r] =
                    [pos |-> "pending",
                     response |-> Request(handler, description, index,
                                          IF handler = "image" THEN 720 ELSE 0,
                                          TRUE)]]
    /\ UNCHANGED <<db_file, emb_file, idx_file, MEDIA_DATABASE, EMBEDDINGS,
                   FAISS_INDEX, SENTENCE_MODEL, INDEX_DATA, pc, failed, resp,
                   arg, ret>>

\* The event loop starts the handler of a pending request; the handler runs
\* to its return, or as far as the call of SENTENCE_MODEL.encode.
run_handler(r) ==
    /\ pc = "ready"
    /\ tasks[r].pos = "pending"
    /\ ~LoopBusy
    /\ tasks' = [tasks EXCEPT ![r] =
                    IF Encodes(tasks[r].response)
                    THEN [pos |-> "encode", response |-> tasks[r].response]
                    ELSE [pos |-> "done",
                          response |-> handler_response(tasks[r].response)]]
    /\ UNCHANGED <<db_file, emb_file, idx_file, MEDIA_DATABASE, EMBEDDINGS,
                   FAISS_INDEX, SENTENCE_MODEL, INDEX_DATA, pc, failed, resp,
                   arg, ret>>

\* SENTENCE_MODEL.encode returns and the handler runs on to its return
\* (lines 191-208, then 284-312 or 340-363) on the same thread.
encode_returns(r) ==
    /\ pc = "ready"
    /\ tasks[r].pos = "encode"
    /\ tasks' = [tasks EXCEPT ![r] =
                    [pos |-> "done",
                     response |-> handler_response(tasks[r].response)]]
    /\ MEDIA_DATABASE' = catalog_after_rewrite(tasks'[r].response)
    /\ UNCHANGED <<db_file, emb_file, idx_file, EMBEDDINGS,
                   FAISS_INDEX, SENTENCE_MODEL, INDEX_DATA, pc, failed, resp,
                   arg, ret>>

\* The event loop sends the response of a handler that has returned.
respond(r) ==
    /\ pc = "ready"
    /\ tasks[r].pos = "done"
    /\ ~LoopBusy
    /\ tasks' = [tasks EXCEPT ![r] = NoTask]
    /\ UNCHANGED <<db_file, emb_file, idx_file, MEDIA_DATABASE, EMBEDDINGS,
                   FAISS_INDEX, SENTENCE_MODEL, INDEX_DATA, pc, failed, resp,
                   arg, ret>>

\* Requests sent to the running service: both handlers, two descriptions,
\* a valid and an invalid index; size and redirect at their defaults.
LoopDescriptions == {"shoe", "sunset"}
LoopIndexInputs == {-1, 0}

\* A service that has started from artifacts generated for its catalog:
\* the state startup_event leaves after create_unified_database and
\* generate_embeddings have run in this order.
Started(database) ==
    LET rows == [i \in 1 .. Len(database) |->
                    encode(create_searchable_text(database[i]))]
        index_data == [total_items |-> Len(database),
                       content_type_index |-> content_type_index(database)]
    IN  /\ db_file = File(database)
        /\ emb_file = File(rows)
        /\ idx_file = File(index_data)
        /\ MEDIA_DATABASE = database
        /\ EMBEDDINGS = [loaded |-> TRUE, rows |-> rows]
        /\ FAISS_INDEX = [built |-> TRUE, vectors |-> rows]
        /\ SENTENCE_MODEL = TRUE
        /\ INDEX_DATA = index_data
        /\ pc = "ready"
        /\ failed = {}
        /\ resp = NoResponse
        /\ arg = NoCall
        /\ ret = NoResult
        /\ tasks = NoTasks

InitLoop ==
    \E nI \in 0 .. 1, nV \in 0 .. 1 :
        /\ nI + nV > 0
        /\ Started(process_product_images(nI, 0) \o process_videos(nV, 0))

NextLoop ==
    \/ \E r \in Requests, handler \in {"image", "video"},
          description \in LoopDescriptions, index \in LoopIndexInputs :
           accept(r, handler, description, index)
    \/ \E r \in Requests : run_handler(r)
    \/ \E r \in Requests : encode_returns(r)
    \/ \E r \in Requests : respond(r)

SpecLoop == InitLoop /\ [][NextLoop]_vars

(***************************************************************************)
(* Properties of the link-size functions (checked under SpecLink).         *)
(***************************************************************************)
Supported == {160, 320, 480, 720, 1000, 1500}

\* C8: validate(size) is a supported size; it is the input when the input
\* is supported, otherwise a supported size at least distance from the
\* input, the smaller one of two at the same distance (500 gives 480, 400
\* gives 320); validating the result again changes nothing.
C8_ValidateNearest ==
    arg.fn = "validate" =>
        /\ ret.size \in Supported
        /\ (arg.size \in Supported => ret.size = arg.size)
        /\ \A m \in Supported :
              /\ Abs(ret.size - arg.size) <= Abs(m - arg.size)
              /\ (Abs(m - arg.size) = Abs(ret.size - arg.size) => ret.size <= m)
        /\ ret.again = ret.size
        /\ (arg.size = 500 => ret.size = 480)
        /\ (arg.size = 400 => ret.size = 320)

\* C8 witness: a size halfway between two supported sizes was validated.
C8_Witness ==
    arg.fn = "validate" /\ arg.size = 400 /\ ret.size = 320

\* A size token of url: marker at p, n >= 1 digits, then the terminator.
TokenAt(url, p, n) ==
    /\ n >= 1
    /\ p + 6 + n <= Len(url)
    /\ SubSeq(url, p, p + 3) = <<"_", "A", "C", "_">>
    /\ SubSeq(url, p + 4, p + 5) \in {<<"U", "L">>, <<"S", "L">>}
    /\ \A j \in (p + 6) .. (p + 5 + n) : IsDigit(url[j])
    /\ url[p + 6 + n] = "_"

Tokens(url) ==
    {t \in (1 .. Len(url)) \X (1 .. Len(url)) : TokenAt(url, t[1], t[2])}

\* The number a run of decimal digits denotes.
RECURSIVE DigitsValue(_)
DigitsValue(ds) ==
    IF Len(ds) = 0 THEN 0
    ELSE 10 * DigitsValue(SubSeq(ds, 1, Len(ds) - 1))
         + (CHOOSE d \in 0 .. 9 : DigitChars[d + 1] = ds[Len(ds)])

NotDigit(c) == ~IsDigit(c)

\* url with the n digits after the marker at p replaced by the digits ds.
WithDigits(url, p, n, ds) ==
    SubSeq(url, 1, p + 5) \o ds \o SubSeq(url, p + 6 + n, Len(url))

\* C9: the rewrite changes nothing but the digit run of the size token,
\* which becomes the decimal form of the validated size; a link without a
\* token comes back unchanged.  With several tokens the leftmost one is
\* rewritten this way and no character other than a digit changes.
C9_ResizeFrame ==
    arg.fn = "resize" =>
        LET url == Chars(arg.link)
            out == ret.link
            toks == Tokens(url)
        IN  /\ (toks = {} => out = url)
            /\ SelectSeq(out, NotDigit) = SelectSeq(url, NotDigit)
            /\ \A t \in toks :
                  (\A u \in toks : t[1] <= u[1]) =>
                      \E len \in 1 .. 4 :
                          LET ds == SubSeq(out, t[1] + 6, t[1] + 5 + len)
                          IN  /\ t[1] + 5 + len <= Len(out)
                              /\ \A i \in DOMAIN ds : IsDigit(ds[i])
                              /\ ds[1] # "0"
                              /\ DigitsValue(ds) = ret.size
                              /\ ret.size \in Supported
                              /\ SubSeq(out, 1, t[1] + 5 + len + 1)
                                     = SubSeq(WithDigits(url, t[1], t[2], ds),
                                              1, t[1] + 5 + len + 1)
                              /\ (Cardinality(toks) = 1 =>
                                     out = WithDigits(url, t[1], t[2], ds))

\* C9 witness: a link with a size token was resized to a size that is not
\* supported as requested.
C9_Witness ==
    /\ arg.fn = "resize"
    /\ arg.link = "a_AC_UL320_j"
    /\ arg.size = 500
    /\ ret.link = <<"a", "_", "A", "C", "_", "U", "L", "4", "8", "0", "_", "j">>

\* C9 witness of the other case: a link without a token came back as it was.
C9_WitnessNoToken ==
    arg.fn = "resize" /\ arg.link = "x_AC_UL320.j" /\ ret.link = Chars(arg.link)

(***************************************************************************)
(* Properties of the service (checked under Spec).                         *)
(***************************************************************************)
\* The partition of a content type: the catalog positions of its records.
Partition(content_type) == PositionsOf(MEDIA_DATABASE, content_type)

Served == resp.handler # "none"
Accepted == Served /\ resp.status # 422
Succeeded == Served /\ resp.status \in {200, 302}

\* The request passes the handlers' parameter validation.
ValidRequest ==
    /\ Served
    /\ ValidIndex(resp.index)
    /\ (resp.handler = "image" => ValidSize(resp.size))

\* The loaded partition metadata and embedding table agree with the catalog.
ArtifactsConsistent ==
    /\ INDEX_DATA.content_type_index = content_type_index(MEDIA_DATABASE)
    /\ INDEX_DATA.total_items = Len(MEDIA_DATABASE)
    /\ Len(EMBEDDINGS.rows) = Len(MEDIA_DATABASE)

\* C1: a valid lookup for a content type with a non-empty partition
\* succeeds (302 or JSON) with a non-empty result list.
C1_FallbackTotal ==
    (ValidRequest /\ Len(Partition(resp.handler)) > 0) =>
        (Succeeded /\ Len(resp.results) > 0)

\* C1 with artifacts that agree with the catalog.
C1_FallbackTotalConsistent ==
    ArtifactsConsistent => C1_FallbackTotal

\* C2: a valid lookup for a content type with an empty partition ends in
\* 404, with no result list and no record.
C2_EmptyPartitionNotFound ==
    (ValidRequest /\ Len(Partition(resp.handler)) = 0) =>
        (resp.status = 404 /\ resp.results = <<>> /\ resp.position = -1)

\* C2 with artifacts that agree with the catalog.
C2_EmptyPartitionNotFoundConsistent ==
    ArtifactsConsistent => C2_EmptyPartitionNotFound

\* C3 as stated: no integer index is rejected, and a successful lookup
\* answers with index mod L of its L results.
C3_NoIndexRejected ==
    /\ (Served /\ (resp.handler = "image" => ValidSize(resp.size))) =>
           resp.status # 422
    /\ Succeeded =>
           /\ resp.final_index \in 0 .. (Len(resp.results) - 1)
           /\ resp.position = resp.results[resp.final_index + 1]

\* i and j differ by a multiple of n.
Congruent(i, j, n) ==
    \E q \in -(Limit + 3) .. (Limit + 3) : i = q * n + j

\* C3 amended: a request is rejected (422) exactly when a parameter fails
\* the handler's validation, which a negative index does; a successful
\* lookup with L results answers with the index in 0..L-1 congruent to the
\* requested one and with the record at that place of the list; and the
\* modulus itself maps every integer, negative ones included, into 0..L-1.
C3_SelectionModulus ==
    /\ Served => (resp.status = 422 <=> ~ValidRequest)
    /\ Succeeded =>
           LET L == Len(resp.results)
           IN  /\ L > 0
               /\ resp.final_index \in 0 .. (L - 1)
               /\ Congruent(resp.index, resp.final_index, L)
               /\ resp.position = resp.results[resp.final_index + 1]
               /\ \A i \in IndexInputs :
                     /\ FinalIndex(i, L) \in 0 .. (L - 1)
                     /\ Congruent(i, FinalIndex(i, L), L)

\* C3 witness: the requested index lies past the end of a list of two or
\* more results and wrapped around.
C3_Witness ==
    /\ Succeeded
    /\ Len(resp.results) >= 2
    /\ resp.index >= Len(resp.results)
    /\ resp.final_index = 1

\* C4: startup loads in order and a failed load step keeps the service
\* from becoming ready and from serving a lookup.
C4_StartupFailStop ==
    /\ EMBEDDINGS.loaded => pc # "stopped"
    /\ INDEX_DATA # NoIndexData => pc # "stopped"
    /\ FAISS_INDEX.built => EMBEDDINGS.loaded
    /\ pc = "ready" => failed = {}
    /\ Served => failed = {}

\* C5: the service becomes ready only with partition metadata that agrees
\* with the catalog and the embedding table.
C5_InconsistentMetadataFatal ==
    pc = "ready" => ArtifactsConsistent

\* C6: a list that did not come from the scored stage is the full partition
\* in catalog order, cut at the limit, and is produced only when the scored
\* stage found nothing.
C6_UnrankedIsPartition ==
    (Succeeded /\ resp.stage # "scored") =>
        /\ resp.results = Take(Partition(resp.handler), Limit)
        /\ resp.stage = "unranked"

\* C6 with artifacts that agree with the catalog.
C6_UnrankedIsPartitionConsistent ==
    ArtifactsConsistent => C6_UnrankedIsPartition

\* C7: no result list handed to selection is longer than the limit.
C7_ResultsWithinLimit ==
    Served => Len(resp.results) <= Limit

\* C7 with artifacts that agree with the catalog.
C7_ResultsWithinLimitConsistent ==
    ArtifactsConsistent => C7_ResultsWithinLimit

\* The legacy form of a description: text, "___", index.
HasLegacySuffix(description) == description \in {"shoe___1", "hat___x"}
LegacyText(description) ==
    CASE description = "shoe___1" -> "shoe"
      [] description = "hat___x" -> "hat"
      [] OTHER -> description
LegacyIndex(description) ==
    CASE description = "shoe___1" -> 1
      [] OTHER -> 0

\* C10: a description with the legacy suffix is scored without the suffix
\* and the suffix, read as an integer (0 when it is none), is the requested
\* index.
C10_LegacySuffix ==
    (Accepted /\ HasLegacySuffix(resp.description)) =>
        /\ resp.encoded \in {"", LegacyText(resp.description)}
        /\ Succeeded =>
               resp.final_index
                   = LegacyIndex(resp.description) % Len(resp.results)

\* The request a response answers, and the response the service would give
\* to it in the current state.
RequestOf(response) ==
    Request(response.handler, response.description, response.index,
            response.size, response.redirect)

RespondAgain ==
    IF resp.handler = "image" THEN image_response(RequestOf(resp))
    ELSE IF resp.handler = "video" THEN video_response(RequestOf(resp))
    ELSE NoResponse

\* C11: once the service is ready no step changes the catalog, the partition
\* metadata, the embedding table or the search index, and a lookup leaves
\* the service in a state in which the same request gets the same response
\* (same record, same link).
C11_LookupsLeaveCatalog ==
    /\ [][pc = "ready" =>
             /\ MEDIA_DATABASE' = MEDIA_DATABASE
             /\ INDEX_DATA' = INDEX_DATA
             /\ EMBEDDINGS' = EMBEDDINGS
             /\ FAISS_INDEX' = FAISS_INDEX]_vars
    /\ [](Served => resp = RespondAgain)

\* C11 witness: an image lookup answered with a rewritten link while the
\* catalog record it selected still has the link it was loaded with.
C11_Witness ==
    /\ Succeeded
    /\ resp.handler = "image"
    /\ resp.link # Chars(MEDIA_DATABASE[resp.position + 1].link)
    /\ MEDIA_DATABASE = db_file.data


\* The similarity the index holds for a catalog position against the text
\* the response scored.
ScoredSimilarity(position) ==
    InnerProduct(FAISS_INDEX.vectors[position + 1], encode(resp.encoded))

\* The nearest-neighbour hits for k = min(2 * |partition|, |Catalog|), kept
\* in order, filtered to the partition of the catalog and cut at the limit.
ScoredHits(content_type) ==
    LET partition == Partition(content_type)
        k == Min(2 * Len(partition), Len(MEDIA_DATABASE))
        hits == search(FAISS_INDEX.vectors, encode(resp.encoded), k)
        InPartition(position) == position \in Range(partition)
    IN  Take(SelectSeq(hits, InPartition), Limit)

\* C12: a list produced by the scored stage is exactly the nearest-neighbour
\* hits for k = min(2 * |partition|, |Catalog|), in their order, filtered to
\* the requested partition and cut at the limit; similarities do not
\* increase along the list and every record has the requested content type.
C12_ScoredStage ==
    (Succeeded /\ resp.stage = "scored") =>
        /\ resp.results = ScoredHits(resp.handler)
        /\ \A i \in DOMAIN resp.results :
               MEDIA_DATABASE[resp.results[i] + 1].content_type = resp.handler
        /\ \A i, j \in DOMAIN resp.results :
               i < j => ScoredSimilarity(resp.results[i]) >=
                            ScoredSimilarity(resp.results[j])

\* C12 with artifacts that agree with the catalog.
C12_ScoredStageConsistent ==
    ArtifactsConsistent => C12_ScoredStage

\* A scored list of more than one record, of two different similarities,
\* from artifacts that agree with the catalog.
C12_ScoredOrdered ==
    /\ ArtifactsConsistent
    /\ Succeeded
    /\ resp.stage = "scored"
    /\ Len(resp.results) > 1
    /\ ScoredSimilarity(resp.results[1]) >
           ScoredSimilarity(resp.results[Len(resp.results)])


\* A step of the request's own: its handler starts, its embedding call
\* returns, or its response is sent.
StepOf(r) == run_handler(r) \/ encode_returns(r) \/ respond(r)

\* C13: while one request is inside its query-embedding call, every other
\* request the server holds can take a step of its own.
C13_EmbeddingDoesNotBlock ==
    \A r1, r2 \in Requests :
        (r1 # r2 /\ tasks[r1].pos = "encode" /\ tasks[r2].pos # "idle") =>
            ENABLED StepOf(r2)

\* Outside an embedding call a request the server holds always has a step.
C13_FreeLoopServes ==
    \A r \in Requests :
        (~LoopBusy /\ tasks[r].pos # "idle") => ENABLED StepOf(r)

====
